---- MODULE Spec2Model ----
(***************************************************************************)
(* A model of binexp_parser.py: the BinOpAst class (a binary operator AST  *)
(* read from a list of tokens in prefix notation), its three renderers and *)
(* its simplifier, driven the way the file's own test loop drives them.    *)
(*                                                                         *)
(* Python strings are sequences of one-character strings, so that          *)
(* concatenation and splitting on spaces are computed, not assumed.        *)
(* Python objects live in a heap: a sequence of records indexed by object  *)
(* id, so that `self.left = ...` is an in-place update and `is` is         *)
(* equality of ids.                                                        *)
(***************************************************************************)
EXTENDS Integers, Sequences, FiniteSets

(***************************************************************************)
(* Bounds of the model.                                                    *)
(***************************************************************************)
MaxLen == 5        \* longest token list drawn from all of Tokens
MaxCoreLen == 7    \* longest token list drawn from CoreTokens only
MaxPasses == 2     \* how many times the driver calls simplify_binops

(***************************************************************************)
(* Strings.                                                                *)
(***************************************************************************)
\* the ASCII decimal digits
Digits == {"0", "1", "2", "3", "4", "5", "6", "7", "8", "9"}

\* the numeric characters of Latin-1: superscripts and vulgar fractions
Latin1Numeric == {"²", "³", "¹", "¼", "½", "¾"}

\* the other characters str.isnumeric() accepts (Unicode 14.0: 1856 of them),
\* each written by its code point, as a string literal cannot hold it
OtherNumeric ==
    {
      "U+0660", "U+0661", "U+0662", "U+0663", "U+0664", "U+0665", "U+0666",
      "U+0667", "U+0668", "U+0669", "U+06F0", "U+06F1", "U+06F2", "U+06F3",
      "U+06F4", "U+06F5", "U+06F6", "U+06F7", "U+06F8", "U+06F9", "U+07C0",
      "U+07C1", "U+07C2", "U+07C3", "U+07C4", "U+07C5", "U+07C6", "U+07C7",
      "U+07C8", "U+07C9", "U+0966", "U+0967", "U+0968", "U+0969", "U+096A",
      "U+096B", "U+096C", "U+096D", "U+096E", "U+096F", "U+09E6", "U+09E7",
      "U+09E8", "U+09E9", "U+09EA", "U+09EB", "U+09EC", "U+09ED", "U+09EE",
      "U+09EF", "U+09F4", "U+09F5", "U+09F6", "U+09F7", "U+09F8", "U+09F9",
      "U+0A66", "U+0A67", "U+0A68", "U+0A69", "U+0A6A", "U+0A6B", "U+0A6C",
      "U+0A6D", "U+0A6E", "U+0A6F", "U+0AE6", "U+0AE7", "U+0AE8", "U+0AE9",
      "U+0AEA", "U+0AEB", "U+0AEC", "U+0AED", "U+0AEE", "U+0AEF", "U+0B66",
      "U+0B67", "U+0B68", "U+0B69", "U+0B6A", "U+0B6B", "U+0B6C", "U+0B6D",
      "U+0B6E", "U+0B6F", "U+0B72", "U+0B73", "U+0B74", "U+0B75", "U+0B76",
      "U+0B77", "U+0BE6", "U+0BE7", "U+0BE8", "U+0BE9", "U+0BEA", "U+0BEB",
      "U+0BEC", "U+0BED", "U+0BEE", "U+0BEF", "U+0BF0", "U+0BF1", "U+0BF2",
      "U+0C66", "U+0C67", "U+0C68", "U+0C69", "U+0C6A", "U+0C6B", "U+0C6C",
      "U+0C6D", "U+0C6E", "U+0C6F", "U+0C78", "U+0C79", "U+0C7A", "U+0C7B",
      "U+0C7C", "U+0C7D", "U+0C7E", "U+0CE6", "U+0CE7", "U+0CE8", "U+0CE9",
      "U+0CEA", "U+0CEB", "U+0CEC", "U+0CED", "U+0CEE", "U+0CEF", "U+0D58",
      "U+0D59", "U+0D5A", "U+0D5B", "U+0D5C", "U+0D5D", "U+0D5E", "U+0D66",
      "U+0D67", "U+0D68", "U+0D69", "U+0D6A", "U+0D6B", "U+0D6C", "U+0D6D",
      "U+0D6E", "U+0D6F", "U+0D70", "U+0D71", "U+0D72", "U+0D73", "U+0D74",
      "U+0D75", "U+0D76", "U+0D77", "U+0D78", "U+0DE6", "U+0DE7", "U+0DE8",
      "U+0DE9", "U+0DEA", "U+0DEB", "U+0DEC", "U+0DED", "U+0DEE", "U+0DEF",
      "U+0E50", "U+0E51", "U+0E52", "U+0E53", "U+0E54", "U+0E55", "U+0E56",
      "U+0E57", "U+0E58", "U+0E59", "U+0ED0", "U+0ED1", "U+0ED2", "U+0ED3",
      "U+0ED4", "U+0ED5", "U+0ED6", "U+0ED7", "U+0ED8", "U+0ED9", "U+0F20",
      "U+0F21", "U+0F22", "U+0F23", "U+0F24", "U+0F25", "U+0F26", "U+0F27",
      "U+0F28", "U+0F29", "U+0F2A", "U+0F2B", "U+0F2C", "U+0F2D", "U+0F2E",
      "U+0F2F", "U+0F30", "U+0F31", "U+0F32", "U+0F33", "U+1040", "U+1041",
      "U+1042", "U+1043", "U+1044", "U+1045", "U+1046", "U+1047", "U+1048",
      "U+1049", "U+1090", "U+1091", "U+1092", "U+1093", "U+1094", "U+1095",
      "U+1096", "U+1097", "U+1098", "U+1099", "U+1369", "U+136A", "U+136B",
      "U+136C", "U+136D", "U+136E", "U+136F", "U+1370", "U+1371", "U+1372",
      "U+1373", "U+1374", "U+1375", "U+1376", "U+1377", "U+1378", "U+1379",
      "U+137A", "U+137B", "U+137C", "U+16EE", "U+16EF", "U+16F0", "U+17E0",
      "U+17E1", "U+17E2", "U+17E3", "U+17E4", "U+17E5", "U+17E6", "U+17E7",
      "U+17E8", "U+17E9", "U+17F0", "U+17F1", "U+17F2", "U+17F3", "U+17F4",
      "U+17F5", "U+17F6", "U+17F7", "U+17F8", "U+17F9", "U+1810", "U+1811",
      "U+1812", "U+1813", "U+1814", "U+1815", "U+1816", "U+1817", "U+1818",
      "U+1819", "U+1946", "U+1947", "U+1948", "U+1949", "U+194A", "U+194B",
      "U+194C", "U+194D", "U+194E", "U+194F", "U+19D0", "U+19D1", "U+19D2",
      "U+19D3", "U+19D4", "U+19D5", "U+19D6", "U+19D7", "U+19D8", "U+19D9",
      "U+19DA", "U+1A80", "U+1A81", "U+1A82", "U+1A83", "U+1A84", "U+1A85",
      "U+1A86", "U+1A87", "U+1A88", "U+1A89", "U+1A90", "U+1A91", "U+1A92",
      "U+1A93", "U+1A94", "U+1A95", "U+1A96", "U+1A97", "U+1A98", "U+1A99",
      "U+1B50", "U+1B51", "U+1B52", "U+1B53", "U+1B54", "U+1B55", "U+1B56",
      "U+1B57", "U+1B58", "U+1B59", "U+1BB0", "U+1BB1", "U+1BB2", "U+1BB3",
      "U+1BB4", "U+1BB5", "U+1BB6", "U+1BB7", "U+1BB8", "U+1BB9", "U+1C40",
      "U+1C41", "U+1C42", "U+1C43", "U+1C44", "U+1C45", "U+1C46", "U+1C47",
      "U+1C48", "U+1C49", "U+1C50", "U+1C51", "U+1C52", "U+1C53", "U+1C54",
      "U+1C55", "U+1C56", "U+1C57", "U+1C58", "U+1C59", "U+2070", "U+2074",
      "U+2075", "U+2076", "U+2077", "U+2078", "U+2079", "U+2080", "U+2081",
      "U+2082", "U+2083", "U+2084", "U+2085", "U+2086", "U+2087", "U+2088",
      "U+2089", "U+2150", "U+2151", "U+2152", "U+2153", "U+2154", "U+2155",
      "U+2156", "U+2157", "U+2158", "U+2159", "U+215A", "U+215B", "U+215C",
      "U+215D", "U+215E", "U+215F", "U+2160", "U+2161", "U+2162", "U+2163",
      "U+2164", "U+2165", "U+2166", "U+2167", "U+2168", "U+2169", "U+216A",
      "U+216B", "U+216C", "U+216D", "U+216E", "U+216F", "U+2170", "U+2171",
      "U+2172", "U+2173", "U+2174", "U+2175", "U+2176", "U+2177", "U+2178",
      "U+2179", "U+217A", "U+217B", "U+217C", "U+217D", "U+217E", "U+217F",
      "U+2180", "U+2181", "U+2182", "U+2185", "U+2186", "U+2187", "U+2188",
      "U+2189", "U+2460", "U+2461", "U+2462", "U+2463", "U+2464", "U+2465",
      "U+2466", "U+2467", "U+2468", "U+2469", "U+246A", "U+246B", "U+246C",
      "U+246D", "U+246E", "U+246F", "U+2470", "U+2471", "U+2472", "U+2473",
      "U+2474", "U+2475", "U+2476", "U+2477", "U+2478", "U+2479", "U+247A",
      "U+247B", "U+247C", "U+247D", "U+247E", "U+247F", "U+2480", "U+2481",
      "U+2482", "U+2483", "U+2484", "U+2485", "U+2486", "U+2487", "U+2488",
      "U+2489", "U+248A", "U+248B", "U+248C", "U+248D", "U+248E", "U+248F",
      "U+2490", "U+2491", "U+2492", "U+2493", "U+2494", "U+2495", "U+2496",
      "U+2497", "U+2498", "U+2499", "U+249A", "U+249B", "U+24EA", "U+24EB",
      "U+24EC", "U+24ED", "U+24EE", "U+24EF", "U+24F0", "U+24F1", "U+24F2",
      "U+24F3", "U+24F4", "U+24F5", "U+24F6", "U+24F7", "U+24F8", "U+24F9",
      "U+24FA", "U+24FB", "U+24FC", "U+24FD", "U+24FE", "U+24FF", "U+2776",
      "U+2777", "U+2778", "U+2779", "U+277A", "U+277B", "U+277C", "U+277D",
      "U+277E", "U+277F", "U+2780", "U+2781", "U+2782", "U+2783", "U+2784",
      "U+2785", "U+2786", "U+2787", "U+2788", "U+2789", "U+278A", "U+278B",
      "U+278C", "U+278D", "U+278E", "U+278F", "U+2790", "U+2791", "U+2792",
      "U+2793", "U+2CFD", "U+3007", "U+3021", "U+3022", "U+3023", "U+3024",
      "U+3025", "U+3026", "U+3027", "U+3028", "U+3029", "U+3038", "U+3039",
      "U+303A", "U+3192", "U+3193", "U+3194", "U+3195", "U+3220", "U+3221",
      "U+3222", "U+3223", "U+3224", "U+3225", "U+3226", "U+3227", "U+3228",
      "U+3229", "U+3248", "U+3249", "U+324A", "U+324B", "U+324C", "U+324D",
      "U+324E", "U+324F", "U+3251", "U+3252", "U+3253", "U+3254", "U+3255",
      "U+3256", "U+3257", "U+3258", "U+3259", "U+325A", "U+325B", "U+325C",
      "U+325D", "U+325E", "U+325F", "U+3280", "U+3281", "U+3282", "U+3283",
      "U+3284", "U+3285", "U+3286", "U+3287", "U+3288", "U+3289", "U+32B1",
      "U+32B2", "U+32B3", "U+32B4", "U+32B5", "U+32B6", "U+32B7", "U+32B8",
      "U+32B9", "U+32BA", "U+32BB", "U+32BC", "U+32BD", "U+32BE", "U+32BF",
      "U+3405", "U+3483", "U+382A", "U+3B4D", "U+4E00", "U+4E03", "U+4E07",
      "U+4E09", "U+4E5D", "U+4E8C", "U+4E94", "U+4E96", "U+4EBF", "U+4EC0",
      "U+4EDF", "U+4EE8", "U+4F0D", "U+4F70", "U+5104", "U+5146", "U+5169",
      "U+516B", "U+516D", "U+5341", "U+5343", "U+5344", "U+5345", "U+534C",
      "U+53C1", "U+53C2", "U+53C3", "U+53C4", "U+56DB", "U+58F1", "U+58F9",
      "U+5E7A", "U+5EFE", "U+5EFF", "U+5F0C", "U+5F0D", "U+5F0E", "U+5F10",
      "U+62FE", "U+634C", "U+67D2", "U+6F06", "U+7396", "U+767E", "U+8086",
      "U+842C", "U+8CAE", "U+8CB3", "U+8D30", "U+9621", "U+9646", "U+964C",
      "U+9678", "U+96F6", "U+A620", "U+A621", "U+A622", "U+A623", "U+A624",
      "U+A625", "U+A626", "U+A627", "U+A628", "U+A629", "U+A6E6", "U+A6E7",
      "U+A6E8", "U+A6E9", "U+A6EA", "U+A6EB", "U+A6EC", "U+A6ED", "U+A6EE",
      "U+A6EF", "U+A830", "U+A831", "U+A832", "U+A833", "U+A834", "U+A835",
      "U+A8D0", "U+A8D1", "U+A8D2", "U+A8D3", "U+A8D4", "U+A8D5", "U+A8D6",
      "U+A8D7", "U+A8D8", "U+A8D9", "U+A900", "U+A901", "U+A902", "U+A903",
      "U+A904", "U+A905", "U+A906", "U+A907", "U+A908", "U+A909", "U+A9D0",
      "U+A9D1", "U+A9D2", "U+A9D3", "U+A9D4", "U+A9D5", "U+A9D6", "U+A9D7",
      "U+A9D8", "U+A9D9", "U+A9F0", "U+A9F1", "U+A9F2", "U+A9F3", "U+A9F4",
      "U+A9F5", "U+A9F6", "U+A9F7", "U+A9F8", "U+A9F9", "U+AA50", "U+AA51",
      "U+AA52", "U+AA53", "U+AA54", "U+AA55", "U+AA56", "U+AA57", "U+AA58",
      "U+AA59", "U+ABF0", "U+ABF1", "U+ABF2", "U+ABF3", "U+ABF4", "U+ABF5",
      "U+ABF6", "U+ABF7", "U+ABF8", "U+ABF9", "U+F96B", "U+F973", "U+F978",
      "U+F9B2", "U+F9D1", "U+F9D3", "U+F9FD", "U+FF10", "U+FF11", "U+FF12",
      "U+FF13", "U+FF14", "U+FF15", "U+FF16", "U+FF17", "U+FF18", "U+FF19",
      "U+10107", "U+10108", "U+10109", "U+1010A", "U+1010B", "U+1010C", "U+1010D",
      "U+1010E", "U+1010F", "U+10110", "U+10111", "U+10112", "U+10113", "U+10114",
      "U+10115", "U+10116", "U+10117", "U+10118", "U+10119", "U+1011A", "U+1011B",
      "U+1011C", "U+1011D", "U+1011E", "U+1011F", "U+10120", "U+10121", "U+10122",
      "U+10123", "U+10124", "U+10125", "U+10126", "U+10127", "U+10128", "U+10129",
      "U+1012A", "U+1012B", "U+1012C", "U+1012D", "U+1012E", "U+1012F", "U+10130",
      "U+10131", "U+10132", "U+10133", "U+10140", "U+10141", "U+10142", "U+10143",
      "U+10144", "U+10145", "U+10146", "U+10147", "U+10148", "U+10149", "U+1014A",
      "U+1014B", "U+1014C", "U+1014D", "U+1014E", "U+1014F", "U+10150", "U+10151",
      "U+10152", "U+10153", "U+10154", "U+10155", "U+10156", "U+10157", "U+10158",
      "U+10159", "U+1015A", "U+1015B", "U+1015C", "U+1015D", "U+1015E", "U+1015F",
      "U+10160", "U+10161", "U+10162", "U+10163", "U+10164", "U+10165", "U+10166",
      "U+10167", "U+10168", "U+10169", "U+1016A", "U+1016B", "U+1016C", "U+1016D",
      "U+1016E", "U+1016F", "U+10170", "U+10171", "U+10172", "U+10173", "U+10174",
      "U+10175", "U+10176", "U+10177", "U+10178", "U+1018A", "U+1018B", "U+102E1",
      "U+102E2", "U+102E3", "U+102E4", "U+102E5", "U+102E6", "U+102E7", "U+102E8",
      "U+102E9", "U+102EA", "U+102EB", "U+102EC", "U+102ED", "U+102EE", "U+102EF",
      "U+102F0", "U+102F1", "U+102F2", "U+102F3", "U+102F4", "U+102F5", "U+102F6",
      "U+102F7", "U+102F8", "U+102F9", "U+102FA", "U+102FB", "U+10320", "U+10321",
      "U+10322", "U+10323", "U+10341", "U+1034A", "U+103D1", "U+103D2", "U+103D3",
      "U+103D4", "U+103D5", "U+104A0", "U+104A1", "U+104A2", "U+104A3", "U+104A4",
      "U+104A5", "U+104A6", "U+104A7", "U+104A8", "U+104A9", "U+10858", "U+10859",
      "U+1085A", "U+1085B", "U+1085C", "U+1085D", "U+1085E", "U+1085F", "U+10879",
      "U+1087A", "U+1087B", "U+1087C", "U+1087D", "U+1087E", "U+1087F", "U+108A7",
      "U+108A8", "U+108A9", "U+108AA", "U+108AB", "U+108AC", "U+108AD", "U+108AE",
      "U+108AF", "U+108FB", "U+108FC", "U+108FD", "U+108FE", "U+108FF", "U+10916",
      "U+10917", "U+10918", "U+10919", "U+1091A", "U+1091B", "U+109BC", "U+109BD",
      "U+109C0", "U+109C1", "U+109C2", "U+109C3", "U+109C4", "U+109C5", "U+109C6",
      "U+109C7", "U+109C8", "U+109C9", "U+109CA", "U+109CB", "U+109CC", "U+109CD",
      "U+109CE", "U+109CF", "U+109D2", "U+109D3", "U+109D4", "U+109D5", "U+109D6",
      "U+109D7", "U+109D8", "U+109D9", "U+109DA", "U+109DB", "U+109DC", "U+109DD",
      "U+109DE", "U+109DF", "U+109E0", "U+109E1", "U+109E2", "U+109E3", "U+109E4",
      "U+109E5", "U+109E6", "U+109E7", "U+109E8", "U+109E9", "U+109EA", "U+109EB",
      "U+109EC", "U+109ED", "U+109EE", "U+109EF", "U+109F0", "U+109F1", "U+109F2",
      "U+109F3", "U+109F4", "U+109F5", "U+109F6", "U+109F7", "U+109F8", "U+109F9",
      "U+109FA", "U+109FB", "U+109FC", "U+109FD", "U+109FE", "U+109FF", "U+10A40",
      "U+10A41", "U+10A42", "U+10A43", "U+10A44", "U+10A45", "U+10A46", "U+10A47",
      "U+10A48", "U+10A7D", "U+10A7E", "U+10A9D", "U+10A9E", "U+10A9F", "U+10AEB",
      "U+10AEC", "U+10AED", "U+10AEE", "U+10AEF", "U+10B58", "U+10B59", "U+10B5A",
      "U+10B5B", "U+10B5C", "U+10B5D", "U+10B5E", "U+10B5F", "U+10B78", "U+10B79",
      "U+10B7A", "U+10B7B", "U+10B7C", "U+10B7D", "U+10B7E", "U+10B7F", "U+10BA9",
      "U+10BAA", "U+10BAB", "U+10BAC", "U+10BAD", "U+10BAE", "U+10BAF", "U+10CFA",
      "U+10CFB", "U+10CFC", "U+10CFD", "U+10CFE", "U+10CFF", "U+10D30", "U+10D31",
      "U+10D32", "U+10D33", "U+10D34", "U+10D35", "U+10D36", "U+10D37", "U+10D38",
      "U+10D39", "U+10E60", "U+10E61", "U+10E62", "U+10E63", "U+10E64", "U+10E65",
      "U+10E66", "U+10E67", "U+10E68", "U+10E69", "U+10E6A", "U+10E6B", "U+10E6C",
      "U+10E6D", "U+10E6E", "U+10E6F", "U+10E70", "U+10E71", "U+10E72", "U+10E73",
      "U+10E74", "U+10E75", "U+10E76", "U+10E77", "U+10E78", "U+10E79", "U+10E7A",
      "U+10E7B", "U+10E7C", "U+10E7D", "U+10E7E", "U+10F1D", "U+10F1E", "U+10F1F",
      "U+10F20", "U+10F21", "U+10F22", "U+10F23", "U+10F24", "U+10F25", "U+10F26",
      "U+10F51", "U+10F52", "U+10F53", "U+10F54", "U+10FC5", "U+10FC6", "U+10FC7",
      "U+10FC8", "U+10FC9", "U+10FCA", "U+10FCB", "U+11052", "U+11053", "U+11054",
      "U+11055", "U+11056", "U+11057", "U+11058", "U+11059", "U+1105A", "U+1105B",
      "U+1105C", "U+1105D", "U+1105E", "U+1105F", "U+11060", "U+11061", "U+11062",
      "U+11063", "U+11064", "U+11065", "U+11066", "U+11067", "U+11068", "U+11069",
      "U+1106A", "U+1106B", "U+1106C", "U+1106D", "U+1106E", "U+1106F", "U+110F0",
      "U+110F1", "U+110F2", "U+110F3", "U+110F4", "U+110F5", "U+110F6", "U+110F7",
      "U+110F8", "U+110F9", "U+11136", "U+11137", "U+11138", "U+11139", "U+1113A",
      "U+1113B", "U+1113C", "U+1113D", "U+1113E", "U+1113F", "U+111D0", "U+111D1",
      "U+111D2", "U+111D3", "U+111D4", "U+111D5", "U+111D6", "U+111D7", "U+111D8",
      "U+111D9", "U+111E1", "U+111E2", "U+111E3", "U+111E4", "U+111E5", "U+111E6",
      "U+111E7", "U+111E8", "U+111E9", "U+111EA", "U+111EB", "U+111EC", "U+111ED",
      "U+111EE", "U+111EF", "U+111F0", "U+111F1", "U+111F2", "U+111F3", "U+111F4",
      "U+112F0", "U+112F1", "U+112F2", "U+112F3", "U+112F4", "U+112F5", "U+112F6",
      "U+112F7", "U+112F8", "U+112F9", "U+11450", "U+11451", "U+11452", "U+11453",
      "U+11454", "U+11455", "U+11456", "U+11457", "U+11458", "U+11459", "U+114D0",
      "U+114D1", "U+114D2", "U+114D3", "U+114D4", "U+114D5", "U+114D6", "U+114D7",
      "U+114D8", "U+114D9", "U+11650", "U+11651", "U+11652", "U+11653", "U+11654",
      "U+11655", "U+11656", "U+11657", "U+11658", "U+11659", "U+116C0", "U+116C1",
      "U+116C2", "U+116C3", "U+116C4", "U+116C5", "U+116C6", "U+116C7", "U+116C8",
      "U+116C9", "U+11730", "U+11731", "U+11732", "U+11733", "U+11734", "U+11735",
      "U+11736", "U+11737", "U+11738", "U+11739", "U+1173A", "U+1173B", "U+118E0",
      "U+118E1", "U+118E2", "U+118E3", "U+118E4", "U+118E5", "U+118E6", "U+118E7",
      "U+118E8", "U+118E9", "U+118EA", "U+118EB", "U+118EC", "U+118ED", "U+118EE",
      "U+118EF", "U+118F0", "U+118F1", "U+118F2", "U+11950", "U+11951", "U+11952",
      "U+11953", "U+11954", "U+11955", "U+11956", "U+11957", "U+11958", "U+11959",
      "U+11C50", "U+11C51", "U+11C52", "U+11C53", "U+11C54", "U+11C55", "U+11C56",
      "U+11C57", "U+11C58", "U+11C59", "U+11C5A", "U+11C5B", "U+11C5C", "U+11C5D",
      "U+11C5E", "U+11C5F", "U+11C60", "U+11C61", "U+11C62", "U+11C63", "U+11C64",
      "U+11C65", "U+11C66", "U+11C67", "U+11C68", "U+11C69", "U+11C6A", "U+11C6B",
      "U+11C6C", "U+11D50", "U+11D51", "U+11D52", "U+11D53", "U+11D54", "U+11D55",
      "U+11D56", "U+11D57", "U+11D58", "U+11D59", "U+11DA0", "U+11DA1", "U+11DA2",
      "U+11DA3", "U+11DA4", "U+11DA5", "U+11DA6", "U+11DA7", "U+11DA8", "U+11DA9",
      "U+11FC0", "U+11FC1", "U+11FC2", "U+11FC3", "U+11FC4", "U+11FC5", "U+11FC6",
      "U+11FC7", "U+11FC8", "U+11FC9", "U+11FCA", "U+11FCB", "U+11FCC", "U+11FCD",
      "U+11FCE", "U+11FCF", "U+11FD0", "U+11FD1", "U+11FD2", "U+11FD3", "U+11FD4",
      "U+12400", "U+12401", "U+12402", "U+12403", "U+12404", "U+12405", "U+12406",
      "U+12407", "U+12408", "U+12409", "U+1240A", "U+1240B", "U+1240C", "U+1240D",
      "U+1240E", "U+1240F", "U+12410", "U+12411", "U+12412", "U+12413", "U+12414",
      "U+12415", "U+12416", "U+12417", "U+12418", "U+12419", "U+1241A", "U+1241B",
      "U+1241C", "U+1241D", "U+1241E", "U+1241F", "U+12420", "U+12421", "U+12422",
      "U+12423", "U+12424", "U+12425", "U+12426", "U+12427", "U+12428", "U+12429",
      "U+1242A", "U+1242B", "U+1242C", "U+1242D", "U+1242E", "U+1242F", "U+12430",
      "U+12431", "U+12432", "U+12433", "U+12434", "U+12435", "U+12436", "U+12437",
      "U+12438", "U+12439", "U+1243A", "U+1243B", "U+1243C", "U+1243D", "U+1243E",
      "U+1243F", "U+12440", "U+12441", "U+12442", "U+12443", "U+12444", "U+12445",
      "U+12446", "U+12447", "U+12448", "U+12449", "U+1244A", "U+1244B", "U+1244C",
      "U+1244D", "U+1244E", "U+1244F", "U+12450", "U+12451", "U+12452", "U+12453",
      "U+12454", "U+12455", "U+12456", "U+12457", "U+12458", "U+12459", "U+1245A",
      "U+1245B", "U+1245C", "U+1245D", "U+1245E", "U+1245F", "U+12460", "U+12461",
      "U+12462", "U+12463", "U+12464", "U+12465", "U+12466", "U+12467", "U+12468",
      "U+12469", "U+1246A", "U+1246B", "U+1246C", "U+1246D", "U+1246E", "U+16A60",
      "U+16A61", "U+16A62", "U+16A63", "U+16A64", "U+16A65", "U+16A66", "U+16A67",
      "U+16A68", "U+16A69", "U+16AC0", "U+16AC1", "U+16AC2", "U+16AC3", "U+16AC4",
      "U+16AC5", "U+16AC6", "U+16AC7", "U+16AC8", "U+16AC9", "U+16B50", "U+16B51",
      "U+16B52", "U+16B53", "U+16B54", "U+16B55", "U+16B56", "U+16B57", "U+16B58",
      "U+16B59", "U+16B5B", "U+16B5C", "U+16B5D", "U+16B5E", "U+16B5F", "U+16B60",
      "U+16B61", "U+16E80", "U+16E81", "U+16E82", "U+16E83", "U+16E84", "U+16E85",
      "U+16E86", "U+16E87", "U+16E88", "U+16E89", "U+16E8A", "U+16E8B", "U+16E8C",
      "U+16E8D", "U+16E8E", "U+16E8F", "U+16E90", "U+16E91", "U+16E92", "U+16E93",
      "U+16E94", "U+16E95", "U+16E96", "U+1D2E0", "U+1D2E1", "U+1D2E2", "U+1D2E3",
      "U+1D2E4", "U+1D2E5", "U+1D2E6", "U+1D2E7", "U+1D2E8", "U+1D2E9", "U+1D2EA",
      "U+1D2EB", "U+1D2EC", "U+1D2ED", "U+1D2EE", "U+1D2EF", "U+1D2F0", "U+1D2F1",
      "U+1D2F2", "U+1D2F3", "U+1D360", "U+1D361", "U+1D362", "U+1D363", "U+1D364",
      "U+1D365", "U+1D366", "U+1D367", "U+1D368", "U+1D369", "U+1D36A", "U+1D36B",
      "U+1D36C", "U+1D36D", "U+1D36E", "U+1D36F", "U+1D370", "U+1D371", "U+1D372",
      "U+1D373", "U+1D374", "U+1D375", "U+1D376", "U+1D377", "U+1D378", "U+1D7CE",
      "U+1D7CF", "U+1D7D0", "U+1D7D1", "U+1D7D2", "U+1D7D3", "U+1D7D4", "U+1D7D5",
      "U+1D7D6", "U+1D7D7", "U+1D7D8", "U+1D7D9", "U+1D7DA", "U+1D7DB", "U+1D7DC",
      "U+1D7DD", "U+1D7DE", "U+1D7DF", "U+1D7E0", "U+1D7E1", "U+1D7E2", "U+1D7E3",
      "U+1D7E4", "U+1D7E5", "U+1D7E6", "U+1D7E7", "U+1D7E8", "U+1D7E9", "U+1D7EA",
      "U+1D7EB", "U+1D7EC", "U+1D7ED", "U+1D7EE", "U+1D7EF", "U+1D7F0", "U+1D7F1",
      "U+1D7F2", "U+1D7F3", "U+1D7F4", "U+1D7F5", "U+1D7F6", "U+1D7F7", "U+1D7F8",
      "U+1D7F9", "U+1D7FA", "U+1D7FB", "U+1D7FC", "U+1D7FD", "U+1D7FE", "U+1D7FF",
      "U+1E140", "U+1E141", "U+1E142", "U+1E143", "U+1E144", "U+1E145", "U+1E146",
      "U+1E147", "U+1E148", "U+1E149", "U+1E2F0", "U+1E2F1", "U+1E2F2", "U+1E2F3",
      "U+1E2F4", "U+1E2F5", "U+1E2F6", "U+1E2F7", "U+1E2F8", "U+1E2F9", "U+1E8C7",
      "U+1E8C8", "U+1E8C9", "U+1E8CA", "U+1E8CB", "U+1E8CC", "U+1E8CD", "U+1E8CE",
      "U+1E8CF", "U+1E950", "U+1E951", "U+1E952", "U+1E953", "U+1E954", "U+1E955",
      "U+1E956", "U+1E957", "U+1E958", "U+1E959", "U+1EC71", "U+1EC72", "U+1EC73",
      "U+1EC74", "U+1EC75", "U+1EC76", "U+1EC77", "U+1EC78", "U+1EC79", "U+1EC7A",
      "U+1EC7B", "U+1EC7C", "U+1EC7D", "U+1EC7E", "U+1EC7F", "U+1EC80", "U+1EC81",
      "U+1EC82", "U+1EC83", "U+1EC84", "U+1EC85", "U+1EC86", "U+1EC87", "U+1EC88",
      "U+1EC89", "U+1EC8A", "U+1EC8B", "U+1EC8C", "U+1EC8D", "U+1EC8E", "U+1EC8F",
      "U+1EC90", "U+1EC91", "U+1EC92", "U+1EC93", "U+1EC94", "U+1EC95", "U+1EC96",
      "U+1EC97", "U+1EC98", "U+1EC99", "U+1EC9A", "U+1EC9B", "U+1EC9C", "U+1EC9D",
      "U+1EC9E", "U+1EC9F", "U+1ECA0", "U+1ECA1", "U+1ECA2", "U+1ECA3", "U+1ECA4",
      "U+1ECA5", "U+1ECA6", "U+1ECA7", "U+1ECA8", "U+1ECA9", "U+1ECAA", "U+1ECAB",
      "U+1ECAD", "U+1ECAE", "U+1ECAF", "U+1ECB1", "U+1ECB2", "U+1ECB3", "U+1ECB4",
      "U+1ED01", "U+1ED02", "U+1ED03", "U+1ED04", "U+1ED05", "U+1ED06", "U+1ED07",
      "U+1ED08", "U+1ED09", "U+1ED0A", "U+1ED0B", "U+1ED0C", "U+1ED0D", "U+1ED0E",
      "U+1ED0F", "U+1ED10", "U+1ED11", "U+1ED12", "U+1ED13", "U+1ED14", "U+1ED15",
      "U+1ED16", "U+1ED17", "U+1ED18", "U+1ED19", "U+1ED1A", "U+1ED1B", "U+1ED1C",
      "U+1ED1D", "U+1ED1E", "U+1ED1F", "U+1ED20", "U+1ED21", "U+1ED22", "U+1ED23",
      "U+1ED24", "U+1ED25", "U+1ED26", "U+1ED27", "U+1ED28", "U+1ED29", "U+1ED2A",
      "U+1ED2B", "U+1ED2C", "U+1ED2D", "U+1ED2F", "U+1ED30", "U+1ED31", "U+1ED32",
      "U+1ED33", "U+1ED34", "U+1ED35", "U+1ED36", "U+1ED37", "U+1ED38", "U+1ED39",
      "U+1ED3A", "U+1ED3B", "U+1ED3C", "U+1ED3D", "U+1F100", "U+1F101", "U+1F102",
      "U+1F103", "U+1F104", "U+1F105", "U+1F106", "U+1F107", "U+1F108", "U+1F109",
      "U+1F10A", "U+1F10B", "U+1F10C", "U+1FBF0", "U+1FBF1", "U+1FBF2", "U+1FBF3",
      "U+1FBF4", "U+1FBF5", "U+1FBF6", "U+1FBF7", "U+1FBF8", "U+1FBF9", "U+20001",
      "U+20064", "U+200E2", "U+20121", "U+2092A", "U+20983", "U+2098C", "U+2099C",
      "U+20AEA", "U+20AFD", "U+20B19", "U+22390", "U+22998", "U+23B1B", "U+2626D",
      "U+2F890"
    }

\* every character with a Unicode numeric value
NumericChars == Digits \cup Latin1Numeric \cup OtherNumeric

\* str.isnumeric(): non-empty and every character numeric
isnumeric(s) == Len(s) > 0 /\ \A i \in 1..Len(s) : s[i] \in NumericChars

\* the tokens the inputs are drawn from: the two operators the rules know, one
\* they pass through, the two literals the rules know and four they do not, one
\* of them numeric without being a decimal digit
Tokens == { <<"+">>, <<"*">>, <<"-">>, <<"0">>, <<"1">>, <<"2">>, <<"3">>,
            <<"1", "0">>, <<"²">> }

\* the tokens of the longer inputs
CoreTokens == { <<"+">>, <<"*">>, <<"0">>, <<"1">>, <<"2">> }

\* every token list, well-formed or not, of at most MaxLen tokens, and of at most
\* MaxCoreLen core tokens
Inputs == (UNION { [1..n -> Tokens] : n \in 0..MaxLen })
          \cup (UNION { [1..n -> CoreTokens] : n \in 0..MaxCoreLen })

(***************************************************************************)
(* Python values stored in the fields left and right.                      *)
(***************************************************************************)
PyFalse == 0       \* False, what __init__ stores in a number node
PyNone == -1       \* None, what simplify_binops stores in a number node
Unset == -2        \* attribute not assigned yet (object under construction)

\* truth value of a field: an object reference is true, False and None are not
Truthy(v) == v > 0

\* NodeType = Enum('BinOpNodeType', ['number', 'operator'])
NodeType == [number |-> "number", operator |-> "operator"]

\* BinOpAst.__init__ changed to read a missing token as '0' instead of raising
RECURSIVE BinOpAst_default(_, _)
BinOpAst_default(h, prefix_list) ==
    LET val == IF prefix_list = <<>> THEN <<"0">> ELSE Head(prefix_list)
        rest == IF prefix_list = <<>> THEN <<>> ELSE Tail(prefix_list)
        self == Len(h) + 1
    IN  IF isnumeric(val)
        THEN [ok |-> TRUE,
              heap |-> Append(h, [type |-> NodeType.number, val |-> val,
                                  left |-> PyFalse, right |-> PyFalse]),
              self |-> self, prefix_list |-> rest]
        ELSE LET h0 == Append(h, [type |-> NodeType.operator, val |-> val,
                                  left |-> Unset, right |-> Unset])
                 l == BinOpAst_default(h0, rest)
                 h1 == [l.heap EXCEPT ![self].left = l.self]
                 r == BinOpAst_default(h1, l.prefix_list)
                 h2 == [r.heap EXCEPT ![self].right = r.self]
             IN  [ok |-> TRUE, heap |-> h2, self |-> self,
                  prefix_list |-> r.prefix_list]

(***************************************************************************)
(* BinOpAst.__init__.  The object is allocated first (its id is the next   *)
(* heap slot), then the first token is popped; a number node is complete,  *)
(* an operator node builds left and then right from the same list.         *)
(* list.pop(0) on an empty list raises IndexError, which propagates out of *)
(* every enclosing constructor call: ok = FALSE, no object is returned.    *)
(***************************************************************************)
RECURSIVE BinOpAst(_, _)
BinOpAst(h, prefix_list) ==
    IF prefix_list = <<>>
    THEN [ok |-> FALSE, heap |-> h, self |-> PyNone, prefix_list |-> prefix_list]
    ELSE LET val == Head(prefix_list)
             rest == Tail(prefix_list)
             self == Len(h) + 1
         IN  IF isnumeric(val)
             THEN [ok |-> TRUE,
                   heap |-> Append(h, [type |-> NodeType.number, val |-> val,
                                       left |-> PyFalse, right |-> PyFalse]),
                   self |-> self, prefix_list |-> rest]
             ELSE LET h0 == Append(h, [type |-> NodeType.operator, val |-> val,
                                       left |-> Unset, right |-> Unset])
                      l == BinOpAst(h0, rest)
                      h1 == [l.heap EXCEPT ![self].left = l.self]
                      r == BinOpAst(h1, l.prefix_list)
                      h2 == [r.heap EXCEPT ![self].right = r.self]
                  IN  IF ~l.ok
                      THEN [ok |-> FALSE, heap |-> h, self |-> PyNone,
                            prefix_list |-> l.prefix_list]
                      ELSE IF ~r.ok
                      THEN [ok |-> FALSE, heap |-> h, self |-> PyNone,
                            prefix_list |-> r.prefix_list]
                      ELSE [ok |-> TRUE, heap |-> h2, self |-> self,
                            prefix_list |-> r.prefix_list]

(***************************************************************************)
(* The renderers.                                                          *)
(***************************************************************************)
\* prefix_str changed to render the right child before the left
RECURSIVE prefix_str_swapped(_, _)
prefix_str_swapped(h, self) ==
    IF h[self].type = NodeType.number
    THEN h[self].val
    ELSE h[self].val \o <<" ">> \o prefix_str_swapped(h, h[self].right)
                     \o <<" ">> \o prefix_str_swapped(h, h[self].left)

RECURSIVE prefix_str(_, _)
prefix_str(h, self) ==
    IF h[self].type = NodeType.number
    THEN h[self].val
    ELSE h[self].val \o <<" ">> \o prefix_str(h, h[self].left)
                     \o <<" ">> \o prefix_str(h, h[self].right)

\* infix_str changed to parenthesize only where a child is itself an operator
RECURSIVE infix_str_fewer_parens(_, _)
infix_str_fewer_parens(h, self) ==
    IF h[self].type = NodeType.number
    THEN h[self].val
    ELSE LET body == infix_str_fewer_parens(h, h[self].left) \o <<" ">>
                     \o h[self].val \o <<" ">>
                     \o infix_str_fewer_parens(h, h[self].right)
         IN  IF h[h[self].left].type = NodeType.number
                /\ h[h[self].right].type = NodeType.number
             THEN body
             ELSE <<"(">> \o body \o <<")">>

RECURSIVE infix_str(_, _)
infix_str(h, self) ==
    IF h[self].type = NodeType.number
    THEN h[self].val
    ELSE <<"(">> \o infix_str(h, h[self].left) \o <<" ">> \o h[self].val
                 \o <<" ">> \o infix_str(h, h[self].right) \o <<")">>

RECURSIVE postfix_str(_, _)
postfix_str(h, self) ==
    IF h[self].type = NodeType.number
    THEN h[self].val
    ELSE postfix_str(h, h[self].left) \o <<" ">> \o postfix_str(h, h[self].right)
                     \o <<" ">> \o h[self].val

(***************************************************************************)
(* The three node-local rules.  Each returns an object id: a child of the  *)
(* receiver, the receiver itself, or (mult_by_zero) a fresh number node.   *)
(***************************************************************************)
\* additive_identity changed to look at the left child only
additive_identity_left_only(h, self) ==
    IF h[self].type = NodeType.operator /\ h[self].val = <<"+">>
    THEN IF h[h[self].left].type = NodeType.number /\ h[h[self].left].val = <<"0">>
         THEN h[self].right
         ELSE self
    ELSE self

\* additive_identity changed to forget the test self.val == '+'
additive_identity_any_operator(h, self) ==
    IF h[self].type = NodeType.operator
    THEN IF h[h[self].left].type = NodeType.number /\ h[h[self].left].val = <<"0">>
         THEN h[self].right
         ELSE IF h[h[self].right].type = NodeType.number
                 /\ h[h[self].right].val = <<"0">>
         THEN h[self].left
         ELSE self
    ELSE self

additive_identity(h, self) ==
    IF h[self].type = NodeType.operator /\ h[self].val = <<"+">>
    THEN IF h[h[self].left].type = NodeType.number /\ h[h[self].left].val = <<"0">>
         THEN h[self].right
         ELSE IF h[h[self].right].type = NodeType.number
                 /\ h[h[self].right].val = <<"0">>
         THEN h[self].left
         ELSE self
    ELSE self

\* multiplicative_identity changed to return the child that is '1'
multiplicative_identity_wrong_child(h, self) ==
    IF h[self].type = NodeType.operator /\ h[self].val = <<"*">>
    THEN IF h[h[self].left].type = NodeType.number /\ h[h[self].left].val = <<"1">>
         THEN h[self].left
         ELSE IF h[h[self].right].type = NodeType.number
                 /\ h[h[self].right].val = <<"1">>
         THEN h[self].right
         ELSE self
    ELSE self

multiplicative_identity(h, self) ==
    IF h[self].type = NodeType.operator /\ h[self].val = <<"*">>
    THEN IF h[h[self].left].type = NodeType.number /\ h[h[self].left].val = <<"1">>
         THEN h[self].right
         ELSE IF h[h[self].right].type = NodeType.number
                 /\ h[h[self].right].val = <<"1">>
         THEN h[self].left
         ELSE self
    ELSE self

\* returns the heap as well: BinOpAst(['0']) allocates
mult_by_zero(h, self) ==
    IF h[self].type = NodeType.operator /\ h[self].val = <<"*">>
    THEN IF h[h[self].left].type = NodeType.number /\ h[h[self].left].val = <<"0">>
         THEN LET z == BinOpAst(h, << <<"0">> >>) IN [heap |-> z.heap, ret |-> z.self]
         ELSE IF h[h[self].right].type = NodeType.number
                 /\ h[h[self].right].val = <<"0">>
         THEN LET z == BinOpAst(h, << <<"0">> >>) IN [heap |-> z.heap, ret |-> z.self]
         ELSE [heap |-> h, ret |-> self]
    ELSE [heap |-> h, ret |-> self]

Max(a, b) == IF a >= b THEN a ELSE b

\* simplify_binops changed to apply the three rules without simplifying the
\* children first
simplify_binops_no_recursion(h, self) ==
    LET a == additive_identity(h, self)
        m == multiplicative_identity(h, a)
        z == mult_by_zero(h, m)
        here == (IF a # self THEN 1 ELSE 0) + (IF m # a THEN 1 ELSE 0)
                + (IF z.ret # m THEN 1 ELSE 0)
    IN  [heap |-> z.heap, ret |-> z.ret, fired |-> here]

(***************************************************************************)
(* simplify_binops: rebinds self.left and self.right in place to the       *)
(* simplified children (None for a number node), then threads self through *)
(* the three rules in sequence.  `fired` is an observation, not program    *)
(* state: the largest number of rules, over the nodes visited by this      *)
(* call, that returned something other than their receiver.                *)
(***************************************************************************)
RECURSIVE simplify_binops(_, _)
simplify_binops(h, self) ==
    LET l == IF Truthy(h[self].left)
             THEN simplify_binops(h, h[self].left)
             ELSE [heap |-> h, ret |-> PyNone, fired |-> 0]
        h1 == [l.heap EXCEPT ![self].left = l.ret]
        r == IF Truthy(h1[self].right)
             THEN simplify_binops(h1, h1[self].right)
             ELSE [heap |-> h1, ret |-> PyNone, fired |-> 0]
        h2 == [r.heap EXCEPT ![self].right = r.ret]
        a == additive_identity(h2, self)
        m == multiplicative_identity(h2, a)
        z == mult_by_zero(h2, m)
        here == (IF a # self THEN 1 ELSE 0) + (IF m # a THEN 1 ELSE 0)
                + (IF z.ret # m THEN 1 ELSE 0)
    IN  [heap |-> z.heap, ret |-> z.ret, fired |-> Max(here, Max(l.fired, r.fired))]

\* str.split(' '): the pieces between single spaces, empty pieces included
RECURSIVE split(_)
split(s) ==
    IF \E i \in 1..Len(s) : s[i] = " "
    THEN LET i == CHOOSE j \in 1..Len(s) :
                      s[j] = " " /\ \A k \in 1..(j - 1) : s[k] # " "
         IN  <<SubSeq(s, 1, i - 1)>> \o split(SubSeq(s, i + 1, Len(s)))
    ELSE <<s>>

(***************************************************************************)
(* The structure of the tree rooted at an object: kinds, values and child  *)
(* order, without object ids.  Two trees are structurally equal iff their  *)
(* structures are equal.                                                   *)
(***************************************************************************)
RECURSIVE Structure(_, _)
Structure(h, n) ==
    IF h[n].type = NodeType.number
    THEN [type |-> NodeType.number, val |-> h[n].val, kids |-> <<>>]
    ELSE [type |-> NodeType.operator, val |-> h[n].val,
          kids |-> <<Structure(h, h[n].left), Structure(h, h[n].right)>>]

Leaf(v) == [type |-> NodeType.number, val |-> v, kids |-> <<>>]
Op(v, l, r) == [type |-> NodeType.operator, val |-> v, kids |-> <<l, r>>]

(***************************************************************************)
(* The driver: the test loop of the file, extended with the renderers and  *)
(* with rebuilding a tree from its prefix rendering.                       *)
(***************************************************************************)
VARIABLES
    pc,              \* "start", "error", "built", "rendered", "rebuilt"
    test_input,      \* the token list as given (the constructor destroys its copy)
    prefix_list,     \* the list object handed to the constructor
    heap,            \* the objects
    ast,             \* what BinOpAst(test_input) returned
    simplified_ast,  \* what the last simplify_binops returned
    passes,          \* simplify_binops calls made so far
    before,          \* structure of the receiver of the last simplify_binops call
    fired,           \* most rules fired at one node in the last simplify_binops call
    notation,        \* which renderer produced out
    out,             \* the last rendering
    rebuilt,         \* what BinOpAst(out.split(' ')) returned
    leftover         \* the tokens that call left in its list

vars == <<pc, test_input, prefix_list, heap, ast, simplified_ast, passes, before,
          fired, notation, out, rebuilt, leftover>>

\* the tree the driver currently holds
cur == IF passes = 0 THEN ast ELSE simplified_ast

Init ==
    /\ pc = "start"
    /\ test_input \in Inputs
    /\ prefix_list = test_input
    /\ heap = <<>>
    /\ ast = PyNone
    /\ simplified_ast = PyNone
    /\ passes = 0
    /\ before = <<>>
    /\ fired = 0
    /\ notation = "none"
    /\ out = <<>>
    /\ rebuilt = PyNone
    /\ leftover = <<>>

\* ast = BinOpAst(test_input)
Construct ==
    /\ pc = "start"
    /\ LET b == BinOpAst(heap, prefix_list)
       IN  /\ pc' = IF b.ok THEN "built" ELSE "error"
           /\ heap' = b.heap
           /\ ast' = b.self
           /\ prefix_list' = b.prefix_list
    /\ UNCHANGED <<test_input, simplified_ast, passes, before, fired, notation, out,
                   rebuilt, leftover>>

\* simplified_ast = ast.simplify_binops(), and again on its result
Simplify ==
    /\ pc = "built"
    /\ passes < MaxPasses
    /\ LET s == simplify_binops(heap, cur)
       IN  /\ heap' = s.heap
           /\ simplified_ast' = s.ret
           /\ fired' = s.fired
    /\ before' = Structure(heap, cur)
    /\ passes' = passes + 1
    /\ UNCHANGED <<pc, test_input, prefix_list, ast, notation, out, rebuilt, leftover>>

Render(kind, str) ==
    /\ pc = "built"
    /\ pc' = "rendered"
    /\ notation' = kind
    /\ out' = str
    /\ UNCHANGED <<test_input, prefix_list, heap, ast, simplified_ast, passes, before,
                   fired, rebuilt, leftover>>

PrefixStr == Render("prefix", prefix_str(heap, cur))
InfixStr == Render("infix", infix_str(heap, cur))
PostfixStr == Render("postfix", postfix_str(heap, cur))

\* BinOpAst(out.split(' ')) on the prefix rendering
Rebuild ==
    /\ pc = "rendered"
    /\ notation = "prefix"
    /\ LET b == BinOpAst(heap, split(out))
       IN  /\ pc' = IF b.ok THEN "rebuilt" ELSE "error"
           /\ heap' = b.heap
           /\ rebuilt' = b.self
           /\ leftover' = b.prefix_list
    /\ UNCHANGED <<test_input, prefix_list, ast, simplified_ast, passes, before, fired,
                   notation, out>>

Next ==
    \/ Construct
    \/ Simplify
    \/ PrefixStr
    \/ InfixStr
    \/ PostfixStr
    \/ Rebuild

Spec == Init /\ [][Next]_vars

(***************************************************************************)
(* Vocabulary of the properties, on tree structures.                       *)
(***************************************************************************)
IsLeaf(t) == t.type = NodeType.number

\* the tokens separated by single spaces
RECURSIVE Join(_)
Join(ts) ==
    IF ts = <<>> THEN <<>>
    ELSE IF Len(ts) = 1 THEN ts[1]
    ELSE ts[1] \o <<" ">> \o Join(Tail(ts))

RECURSIVE PreOrder(_)
PreOrder(t) ==
    IF IsLeaf(t) THEN <<t.val>>
    ELSE <<t.val>> \o PreOrder(t.kids[1]) \o PreOrder(t.kids[2])

RECURSIVE PostOrder(_)
PostOrder(t) ==
    IF IsLeaf(t) THEN <<t.val>>
    ELSE PostOrder(t.kids[1]) \o PostOrder(t.kids[2]) \o <<t.val>>

\* leaf -> value; operator node -> (left value right)
RECURSIVE Parenthesized(_)
Parenthesized(t) ==
    IF IsLeaf(t) THEN t.val
    ELSE <<"(">> \o Parenthesized(t.kids[1]) \o <<" ">> \o t.val \o <<" ">>
                 \o Parenthesized(t.kids[2]) \o <<")">>

\* number of operator nodes
RECURSIVE Operators(_)
Operators(t) ==
    IF IsLeaf(t) THEN 0 ELSE 1 + Operators(t.kids[1]) + Operators(t.kids[2])

\* number of nodes
RECURSIVE Size(_)
Size(t) == IF IsLeaf(t) THEN 1 ELSE 1 + Size(t.kids[1]) + Size(t.kids[2])

Count(s, c) == Cardinality({ i \in 1..Len(s) : s[i] = c })

DigitValue(c) ==
    CASE c = "0" -> 0 [] c = "1" -> 1 [] c = "2" -> 2 [] c = "3" -> 3 [] c = "4" -> 4
      [] c = "5" -> 5 [] c = "6" -> 6 [] c = "7" -> 7 [] c = "8" -> 8 [] c = "9" -> 9

\* the number a decimal literal denotes
RECURSIVE Decimal(_)
Decimal(s) ==
    IF s = <<>> THEN 0
    ELSE 10 * Decimal(SubSeq(s, 1, Len(s) - 1)) + DigitValue(s[Len(s)])

\* every operator is + or *, every number a string of ASCII decimal digits
RECURSIVE OnlyPlusTimes(_)
OnlyPlusTimes(t) ==
    IF IsLeaf(t) THEN \A i \in 1..Len(t.val) : t.val[i] \in Digits
    ELSE /\ t.val \in { <<"+">>, <<"*">> }
         /\ OnlyPlusTimes(t.kids[1])
         /\ OnlyPlusTimes(t.kids[2])

\* the arithmetic value of a tree over + and *
RECURSIVE Value(_)
Value(t) ==
    IF IsLeaf(t) THEN Decimal(t.val)
    ELSE IF t.val = <<"+">> THEN Value(t.kids[1]) + Value(t.kids[2])
    ELSE Value(t.kids[1]) * Value(t.kids[2])

\* some operator node has two number children
RECURSIVE Foldable(_)
Foldable(t) ==
    /\ ~IsLeaf(t)
    /\ \/ IsLeaf(t.kids[1]) /\ IsLeaf(t.kids[2])
       \/ Foldable(t.kids[1])
       \/ Foldable(t.kids[2])

\* the reference rewriter: both children first, then the first rule that matches
\* among additive identity, multiplicative identity and multiplication by zero
RECURSIVE Rewrite(_)
Rewrite(t) ==
    IF IsLeaf(t) THEN t
    ELSE LET l == Rewrite(t.kids[1])
             r == Rewrite(t.kids[2])
         IN  CASE t.val = <<"+">> /\ l = Leaf(<<"0">>) -> r
               [] t.val = <<"+">> /\ l # Leaf(<<"0">>) /\ r = Leaf(<<"0">>) -> l
               [] t.val = <<"*">> /\ l = Leaf(<<"1">>) -> r
               [] t.val = <<"*">> /\ l # Leaf(<<"1">>) /\ r = Leaf(<<"1">>) -> l
               [] t.val = <<"*">> /\ l # Leaf(<<"1">>) /\ r # Leaf(<<"1">>)
                  /\ (l = Leaf(<<"0">>) \/ r = Leaf(<<"0">>)) -> Leaf(<<"0">>)
               [] OTHER -> Op(t.val, l, r)

\* scanning left to right with `need` operands still owed, the tokens run out
\* before the debt is paid
RECURSIVE Missing(_, _)
Missing(ts, need) ==
    IF need = 0 THEN FALSE
    ELSE IF ts = <<>> THEN TRUE
    ELSE Missing(Tail(ts), need - 1 + (IF isnumeric(Head(ts)) THEN 0 ELSE 2))

Exhausted(ts) == Missing(ts, 1)

\* every operator node reachable from n refers to two objects, every number
\* node to none
RECURSIVE TwoChildren(_, _)
TwoChildren(h, n) ==
    IF h[n].type = NodeType.number
    THEN ~Truthy(h[n].left) /\ ~Truthy(h[n].right)
    ELSE /\ Truthy(h[n].left) /\ Truthy(h[n].right)
         /\ TwoChildren(h, h[n].left) /\ TwoChildren(h, h[n].right)

\* the token lists of the file's own tests and their expected outputs
T(a) == <<a>>
Test1 == << T("+"), T("1"), T("+"), T("2"), T("0") >>
Test2 == << T("+"), T("1"), T("*"), T("2"), T("1") >>
Test3 == << T("*"), T("1"), T("*"), T("3"), T("1") >>
Test4 == << T("*"), T("1"), T("0") >>
Test5 == << T("+"), T("1"), T("*"), T("0"), T("1") >>

\* the tree a token list builds and simplify_binops returns for it, from scratch
Simplified(ts) ==
    LET b == BinOpAst(<<>>, ts)
        s == simplify_binops(b.heap, b.self)
    IN  Structure(s.heap, s.ret)

\* ts is exactly one expression
WellFormed(ts) ==
    LET b == BinOpAst(<<>>, ts) IN b.ok /\ b.prefix_list = <<>>

\* the driver holds the result of a simplify_binops call and nothing else yet
JustSimplified == pc = "built" /\ passes >= 1
Result == Structure(heap, simplified_ast)

(***************************************************************************)
(* C1.  Simplifying a built tree and rendering it in prefix notation gives *)
(* the prefix rendering of the reference rewriter's result (children       *)
(* first, then the first matching rule among additive identity,            *)
(* multiplicative identity and multiplication by zero); the file's five    *)
(* tests give '+ 1 2', '+ 1 2', '3', '0' and '1'.                          *)
(***************************************************************************)
SimplifyMatchesReference ==
    (pc = "rendered" /\ notation = "prefix" /\ passes = 1) =>
        /\ out = Join(PreOrder(Rewrite(before)))
        /\ test_input = Test1 => out = <<"+", " ", "1", " ", "2">>
        /\ test_input = Test2 => out = <<"+", " ", "1", " ", "2">>
        /\ test_input = Test3 => out = <<"3">>
        /\ test_input = Test4 => out = <<"0">>
        /\ test_input = Test5 => out = <<"1">>

\* the fifth test rendered: the inner * 0 1 became 0, then + 1 0 became 1
SimplifyMatchesReferenceWitness ==
    /\ pc = "rendered" /\ notation = "prefix" /\ passes = 1
    /\ test_input = Test5
    /\ out = <<"1">>

(***************************************************************************)
(* C2.  simplify_binops folds constants: its result has no operator node   *)
(* whose two children are both numbers, and + 1 1 simplifies to the        *)
(* number 2.                                                               *)
(***************************************************************************)
ConstantFolding ==
    JustSimplified =>
        /\ ~Foldable(Result)
        /\ test_input = << T("+"), T("1"), T("1") >> => Result = Leaf(<<"2">>)

(***************************************************************************)
(* C3.  Identity laws: the trees built from + X 0, + 0 X, * X 1 and * 1 X  *)
(* simplify to the structure X alone simplifies to.                        *)
(***************************************************************************)
\* test_input is op X lit, or op lit X, for one expression X
Wrapped(op, lit, X) ==
    /\ WellFormed(X)
    /\ \/ test_input = <<op>> \o X \o <<lit>>
       \/ test_input = <<op, lit>> \o X

\* the expressions X that test_input wraps this way
Inner(op, lit) ==
    { X \in { SubSeq(test_input, 2, Len(test_input) - 1),
              SubSeq(test_input, 3, Len(test_input)) } : Wrapped(op, lit, X) }

IdentityLaws ==
    (JustSimplified /\ passes = 1) =>
        /\ \A X \in Inner(T("+"), T("0")) : Result = Simplified(X)
        /\ \A X \in Inner(T("*"), T("1")) : Result = Simplified(X)

\* * X 1 with X = + 2 0, and + 0 X with X = * 1 2: X itself is simplified
IdentityLawsWitness ==
    /\ JustSimplified /\ passes = 1
    /\ \/ test_input = << T("*"), T("+"), T("2"), T("0"), T("1") >>
       \/ test_input = << T("+"), T("0"), T("*"), T("1"), T("2") >>
    /\ Inner(T("+"), T("0")) \cup Inner(T("*"), T("1")) # {}
    /\ Result = Leaf(<<"2">>)

(***************************************************************************)
(* C4.  Annihilation law: the trees built from * X 0 and * 0 X simplify to *)
(* the single number 0, also when X simplifies to 1 or to 0.               *)
(***************************************************************************)
AnnihilationLaw ==
    (JustSimplified /\ passes = 1 /\ Inner(T("*"), T("0")) # {}) =>
        Result = Leaf(<<"0">>)

\* * X 0 with X = + 0 1, which simplifies to 1
AnnihilationLawWitness ==
    /\ JustSimplified /\ passes = 1
    /\ test_input = << T("*"), T("+"), T("0"), T("1"), T("0") >>
    /\ Simplified(<< T("+"), T("0"), T("1") >>) = Leaf(<<"1">>)
    /\ Result = Leaf(<<"0">>)

(***************************************************************************)
(* C5.  Idempotence: simplify_binops applied to a tree simplify_binops     *)
(* returned gives a structurally equal tree, and no rule fires.            *)
(***************************************************************************)
Idempotence ==
    (JustSimplified /\ passes >= 2) => (Result = before /\ fired = 0)

\* a second pass over the result of + 0 + 0 1, which the first pass changed
IdempotenceWitness ==
    /\ JustSimplified /\ passes = 2
    /\ test_input = << T("+"), T("0"), T("+"), T("0"), T("1") >>
    /\ Result = Leaf(<<"1">>)

(***************************************************************************)
(* C6.  Round trip: building from the space-split prefix rendering of a    *)
(* tree, as built or as simplified, succeeds, consumes every token and     *)
(* gives a structurally equal tree.                                        *)
(***************************************************************************)
RoundTrip ==
    /\ (pc = "error" => notation = "none")
    /\ pc = "rebuilt" =>
          /\ Structure(heap, rebuilt) = Structure(heap, cur)
          /\ rebuilt # cur
          /\ leftover = <<>>

\* a simplified tree with an operator node and a two-digit number, rebuilt
RoundTripWitness ==
    /\ pc = "rebuilt"
    /\ passes = 1
    /\ test_input = << T("-"), <<"1", "0">>, T("*"), T("1"), T("3") >>
    /\ out = <<"-", " ", "1", "0", " ", "3">>
    /\ Structure(heap, rebuilt) = Op(T("-"), Leaf(<<"1", "0">>), Leaf(T("3")))

(***************************************************************************)
(* C7.  Semantic equivalence: on a tree over + and * with decimal leaves,  *)
(* simplify_binops returns a tree of the same arithmetic value and with no *)
(* more nodes.                                                             *)
(***************************************************************************)
SemanticEquivalence ==
    (JustSimplified /\ OnlyPlusTimes(before)) =>
        /\ Value(Result) = Value(before)
        /\ Size(Result) <= Size(before)

\* (2 + 0) * (1 * 2) = 4 becomes 2 * 2
SemanticEquivalenceWitness ==
    /\ JustSimplified /\ passes = 1
    /\ test_input = << T("*"), T("+"), T("2"), T("0"), T("*"), T("1"), T("2") >>
    /\ Value(before) = 4
    /\ Result = Op(T("*"), Leaf(T("2")), Leaf(T("2")))

(***************************************************************************)
(* C8.  Construction from a token list that runs out before every operator *)
(* has both operands fails and returns no tree; a tree that construction   *)
(* returns has two children at every operator node; a lone numeric token,  *)
(* decimal digit or not, is a complete expression.                         *)
(***************************************************************************)
ExhaustedInputFails ==
    (pc # "start" /\ passes = 0 /\ notation = "none") =>
        /\ Exhausted(test_input) <=> pc = "error"
        /\ pc = "error" => ast = PyNone
        /\ pc = "built" => TwoChildren(heap, ast)
        /\ test_input = << T("²") >> => (pc = "built" /\ prefix_list = <<>>)

\* + 1 has one operand only
ExhaustedInputFailsWitness ==
    /\ pc = "error"
    /\ test_input = << T("+"), T("1") >>
    /\ prefix_list = <<>>
    /\ ast = PyNone

(***************************************************************************)
(* C9.  Rendering: a renderer changes no object; the prefix rendering is   *)
(* the pre-order of the values joined by spaces, the postfix rendering the *)
(* post-order, the infix rendering (left value right) at every operator    *)
(* node, with exactly one pair of parentheses per operator node.           *)
(***************************************************************************)
RenderingStep ==
    (pc = "built" /\ pc' = "rendered") =>
        /\ heap' = heap
        /\ Structure(heap', cur') = Structure(heap, cur)
        /\ notation' = "prefix" => out' = Join(PreOrder(Structure(heap, cur)))
        /\ notation' = "postfix" => out' = Join(PostOrder(Structure(heap, cur)))
        /\ notation' = "infix" =>
              /\ out' = Parenthesized(Structure(heap, cur))
              /\ Count(out', "(") = Operators(Structure(heap, cur))
              /\ Count(out', ")") = Operators(Structure(heap, cur))

RenderingMatchesNotation == [][RenderingStep]_vars

\* the infix rendering of a simplified tree with two operator nodes
RenderingMatchesNotationWitness ==
    /\ pc = "rendered" /\ notation = "infix" /\ passes = 1
    /\ test_input = << T("+"), T("1"), T("*"), T("2"), T("+"), T("0"), T("2") >>
    /\ out = <<"(", "1", " ", "+", " ", "(", "2", " ", "*", " ", "2", ")", ")">>

(***************************************************************************)
(* C10.  First match wins: at every node a simplify_binops call visits, at *)
(* most one of the three rules returns something other than its receiver.  *)
(***************************************************************************)
FirstMatchWins == JustSimplified => fired <= 1

\* additive identity returned the operator node * 2 2; the two later rules
\* were applied to it and did not fire
FirstMatchWinsWitness ==
    /\ JustSimplified /\ passes = 1
    /\ test_input = << T("+"), T("0"), T("*"), T("2"), T("2") >>
    /\ fired = 1
    /\ Result = Op(T("*"), Leaf(T("2")), Leaf(T("2")))

TypeOK ==
    /\ pc \in {"start", "error", "built", "rendered", "rebuilt"}
    /\ passes \in 0..MaxPasses
    /\ fired \in 0..3
====
